---- MODULE Spec2Model ----
(***************************************************************************)
(* The todo system: the user service (register, login), the todo service   *)
(* (authenticateToken, createTodo, getTodos, updateTodo, deleteTodo) and   *)
(* the two tables they share (users, todos).                               *)
(*                                                                         *)
(* A request occupies a slot.  Its handler runs in steps; a step is the    *)
(* synchronous code up to the next awaited database statement, and a       *)
(* database statement is atomic.  Steps of different requests interleave   *)
(* freely.  The clock counts hours.  A request is one that the rate       *)
(* limiter and the body parser have let through to the router.             *)
(***************************************************************************)
EXTENDS Integers, Sequences, FiniteSets, TLC

\* ---------------------------------------------------------------- bounds
MaxTodos == 1        \* values todos_id_seq hands out while requests interleave
MaxItems == 2        \* values todos_id_seq hands out to one request at a time
MaxClock == 26       \* hours the clock advances to
MaxIssued == 2       \* tokens the clients hold
MaxLoginHour == 1    \* the last hour at which a client logs in
MaxListHour == 1     \* the last hour at which the listing clients create

\* Two connections, each with one request in flight at a time.
Slots == {1, 2}

\* ----------------------------------------------------------- JSON values
\* A JSON value: its type, its text and (for a string) its length.
Undefined == [t |-> "undefined", v |-> "", n |-> 0]
Null == [t |-> "null", v |-> "", n |-> 0]
Str(s, len) == [t |-> "string", v |-> s, n |-> len]
Bool(b) == [t |-> "boolean", v |-> IF b THEN "true" ELSE "false", n |-> 0]
Num(s) == [t |-> "number", v |-> s, n |-> 0]

IsString(x) == x.t = "string"

\* The keys a request body may carry; an absent key is Undefined.
BodyKeys == {"email", "password", "title", "description", "completed", "user_uuid"}
EmptyBody == [k \in BodyKeys |-> Undefined]
Body(f) == [k \in BodyKeys |-> IF k \in DOMAIN f THEN f[k] ELSE Undefined]

\* Joi.object(keys): a key outside the schema is not allowed.
OnlyKeys(body, keys) == \A k \in BodyKeys \ keys : body[k] = Undefined

\* Joi.string(): a string, and not the empty string.
JoiString(x) == IsString(x) /\ x.n > 0

\* --------------------------------------------------------------- the clock
VARIABLE now

\* ------------------------------------------------------------ the database
VARIABLES users, todos, todos_id_seq

\* gen_random_uuid(): a fresh identifier; the least unused one stands for it.
UUIDs == {"u1", "u2"}
UuidOrder == <<"u1", "u2">>
gen_random_uuid ==
    LET used == {u.uuid : u \in users}
        free == {i \in 1..Len(UuidOrder) : UuidOrder[i] \notin used}
    IN  UuidOrder[CHOOSE i \in free : \A j \in free : i <= j]

\* bcrypt.hash(password, saltRounds) and bcrypt.compare(plain, hash).
saltRounds == 12
bcrypt_hash(password, rounds) == <<"bcrypt", rounds, password.v>>
bcrypt_compare(plain, hash) == hash[1] = "bcrypt" /\ hash[3] = plain.v

\* ---------------------------------------------------------------- tokens
JWT_SECRET == "fallback-secret-key"
expiresIn == 24

\* One space-separated piece of an Authorization header.  A JWT carries its
\* payload and the key its signature was made with; any other piece is text.
Word(s) == [raw |-> s, userUuid |-> "", email |-> "", iat |-> 0, exp |-> 0, sig |-> ""]
Jwt(payload, iat, exp, key) ==
    [raw |-> "jwt", userUuid |-> payload.userUuid, email |-> payload.email,
     iat |-> iat, exp |-> exp, sig |-> key]

NoUser == [userUuid |-> "", email |-> ""]

\* jwt.sign(payload, JWT_SECRET, { expiresIn: '24h' })
generateToken(payload) == Jwt(payload, now, now + expiresIn, JWT_SECRET)

\* A verifyToken that decodes without checking the signature (jwt.decode).
verifyToken_decodeOnly(token) ==
    IF token.raw = "jwt" /\ now < token.exp
    THEN [userUuid |-> token.userUuid, email |-> token.email]
    ELSE NoUser

\* A verifyToken with ignoreExpiration.
verifyToken_ignoreExpiration(token) ==
    IF token.raw = "jwt" /\ token.sig = JWT_SECRET
    THEN [userUuid |-> token.userUuid, email |-> token.email]
    ELSE NoUser

\* A verifyToken that still accepts at the instant exp.
verifyToken_inclusive(token) ==
    IF token.raw = "jwt" /\ token.sig = JWT_SECRET /\ now <= token.exp
    THEN [userUuid |-> token.userUuid, email |-> token.email]
    ELSE NoUser

\* A verifyToken that also looks the account up.
verifyToken_accountCheck(token) ==
    IF /\ token.raw = "jwt" /\ token.sig = JWT_SECRET /\ now < token.exp
       /\ \E u \in users : u.uuid = token.userUuid
    THEN [userUuid |-> token.userUuid, email |-> token.email]
    ELSE NoUser

\* jwt.verify(token, JWT_SECRET): the payload, or NoUser when it throws
\* (malformed, wrong signature, or the clock has reached exp).
verifyToken(token) ==
    IF token.raw = "jwt" /\ token.sig = JWT_SECRET /\ now < token.exp
    THEN [userUuid |-> token.userUuid, email |-> token.email]
    ELSE NoUser

VerifyThrows(token) == verifyToken(token) = NoUser

\* An Authorization header: absent, or its text split at the spaces.
NoHeader == [present |-> FALSE, parts |-> <<>>]
Header(parts) == [present |-> TRUE, parts |-> parts]
Bearer(token) == Header(<<Word("Bearer"), token>>)

\* authHeader && authHeader.split(' ')[1]
HeaderToken(h) == IF h.present /\ Len(h.parts) >= 2 THEN h.parts[2] ELSE Word("")

\* An authenticateToken that calls next() when there is no token: the
\* handler runs, with no req.user.
authenticateToken_noReturn(h) ==
    LET token == HeaderToken(h) IN
    IF token.raw = "" THEN [status |-> 0, user |-> NoUser, next |-> TRUE]
    ELSE IF VerifyThrows(token) THEN [status |-> 401, user |-> NoUser, next |-> FALSE]
    ELSE [status |-> 0, user |-> verifyToken(token), next |-> TRUE]

\* authenticateToken: 401 without a token or when verifyToken throws, else
\* req.user is the decoded payload and the handler runs (status 0: undecided).
authenticateToken(h) ==
    LET token == HeaderToken(h) IN
    IF token.raw = "" THEN [status |-> 401, user |-> NoUser, next |-> FALSE]
    ELSE IF VerifyThrows(token) THEN [status |-> 401, user |-> NoUser, next |-> FALSE]
    ELSE [status |-> 0, user |-> verifyToken(token), next |-> TRUE]

\* ------------------------------------------------------------- validation
TitleMax == 255
DescriptionMax == 1000
PasswordMin == 6

\* Joi.string().email(): the addresses of the model that are well formed.
EmailOK(x) == JoiString(x) /\ x.v \in {"a@example.com", "b@example.com"}

\* registerSchema / loginSchema
registerSchema(body) ==
    /\ OnlyKeys(body, {"email", "password"})
    /\ EmailOK(body.email)
    /\ JoiString(body.password) /\ body.password.n >= PasswordMin

loginSchema(body) ==
    /\ OnlyKeys(body, {"email", "password"})
    /\ EmailOK(body.email)
    /\ JoiString(body.password)

\* Joi.boolean(): a boolean, or (converting) the text of one.
JoiBoolean(x) ==
    \/ x.t = "boolean"
    \/ x.t = "string" /\ x.v \in {"true", "false"}

\* A createTodoSchema that lets unknown keys through (.unknown(true)).
createTodoSchema_unknown(body) ==
    /\ JoiString(body.title) /\ body.title.n <= TitleMax
    /\ body.description = Undefined
       \/ (JoiString(body.description) /\ body.description.n <= DescriptionMax)

createTodoSchema(body) ==
    /\ OnlyKeys(body, {"title", "description"})
    /\ JoiString(body.title) /\ body.title.n <= TitleMax
    /\ body.description = Undefined
       \/ (JoiString(body.description) /\ body.description.n <= DescriptionMax)

updateTodoSchema(body) ==
    /\ OnlyKeys(body, {"title", "description", "completed"})
    /\ body.title = Undefined
       \/ (JoiString(body.title) /\ body.title.n <= TitleMax)
    /\ body.description = Undefined
       \/ (JoiString(body.description) /\ body.description.n <= DescriptionMax)
    /\ body.completed = Undefined \/ JoiBoolean(body.completed)

\* parseInt(req.params.id): the value of the leading digits, NaN without any.
\* The path segment is a sequence of characters; the digits are kept as read.
Digits == {"0", "1", "2", "3", "4", "5", "6", "7", "8", "9"}
RECURSIVE DigitPrefix(_)
DigitPrefix(s) ==
    IF s = <<>> \/ Head(s) \notin Digits THEN <<>>
    ELSE <<Head(s)>> \o DigitPrefix(Tail(s))

parseInt(s) == [nan |-> DigitPrefix(s) = <<>>, digits |-> DigitPrefix(s)]

DigitValue(c) == CHOOSE d \in 0..9 : <<"0", "1", "2", "3", "4", "5", "6", "7", "8", "9">>[d + 1] = c

\* The todos.id column is a 32-bit integer: a parameter beyond it is an error
\* of the statement (-1 here), else its value.
Int4Max == 2147483647
RECURSIVE Int4In(_, _)
Int4In(digits, acc) ==
    IF digits = <<>> THEN acc
    ELSE LET d == DigitValue(Head(digits)) IN
         IF acc > (Int4Max - d) \div 10 THEN -1
         ELSE Int4In(Tail(digits), 10 * acc + d)

\* --------------------------------------------------------------- requests
VARIABLE req

\* The tokens the clients hold (the login responses they kept).
VARIABLE tokens

vars == <<now, users, todos, todos_id_seq, req, tokens>>

Idle ==
    [kind |-> "none", header |-> NoHeader, idParam |-> <<>>, body |-> EmptyBody,
     pc |-> "idle", status |-> 0, user |-> NoUser, at |-> 0,
     handler |-> FALSE, queries |-> 0, emailTaken |-> FALSE, scanned |-> 0,
     todos |-> <<>>, token |-> Word(""), error |-> ""]

Init ==
    /\ now = 0
    /\ users = {}
    /\ todos = {}
    /\ todos_id_seq = 1
    /\ req = [r \in Slots |-> Idle]
    /\ tokens = {}

\* A connection takes a request when it has none in flight.
Free(r) == req[r].pc \in {"idle", "done"}

\* A request as it arrives.
Arrival(kind, header, idParam, body) ==
    [Idle EXCEPT !.kind = kind, !.header = header, !.idParam = idParam,
                 !.body = body, !.at = now]

\* res.status(code) ends the request.
Reply(q, code) == [q EXCEPT !.pc = "done", !.status = code]

\* res.status(code).json({ error }) of the user service.
ReplyError(q, code, error) == [Reply(q, code) EXCEPT !.error = error]

\* A client keeps a token while it has room for one.
Keep(token) == IF Cardinality(tokens \cup {token}) <= MaxIssued THEN tokens \cup {token} ELSE tokens

\* ----------------------------------------------------------- user service
\* A findByEmail that compares the wrong column.
UserModel_findByEmail_wrongColumn(email) == {u \in users : u.uuid = email.v}

\* SELECT * FROM users WHERE email = $1
UserModel_findByEmail(email) == {u \in users : u.email = email.v}

\* A verifyPassword that accepts any password.
UserModel_verifyPassword_any(plainPassword, hashedPassword) == TRUE

\* UserModel.verifyPassword
UserModel_verifyPassword(plainPassword, hashedPassword) ==
    bcrypt_compare(plainPassword, hashedPassword)

\* A users table whose email column is not UNIQUE.
UsersUniqueEmail_none(email) == TRUE

\* INSERT INTO users (email, password_hash): the row it adds.  The statement
\* fails when the email is taken (email is UNIQUE).
UsersUniqueEmail(email) == \A u \in users : u.email # email.v

UserModel_create(email, password) ==
    [uuid |-> gen_random_uuid, email |-> email.v,
     password_hash |-> bcrypt_hash(password, saltRounds),
     created_at |-> now, updated_at |-> now]

\* POST /api/users/register: validateRegister, then register up to its
\* first query.
validateRegister(r, body) ==
    /\ Free(r)
    /\ LET q == [Arrival("register", NoHeader, <<>>, body) EXCEPT
                   !.emailTaken = (\E u \in users : u.email = body.email.v)] IN
       req' = [req EXCEPT ![r] =
                 IF ~registerSchema(body) THEN ReplyError(q, 400, "error.details[0].message")
                 ELSE [q EXCEPT !.handler = TRUE, !.pc = "findByEmail"]]
    /\ UNCHANGED <<now, users, todos, todos_id_seq, tokens>>

\* register: the result of findByEmail; 409 when a row came back.
register_findByEmail(r) ==
    /\ req[r].kind = "register" /\ req[r].pc = "findByEmail"
    /\ LET q == [req[r] EXCEPT !.queries = @ + 1]
           existingUser == UserModel_findByEmail(q.body.email) IN
       req' = [req EXCEPT ![r] =
                 IF existingUser # {} THEN ReplyError(q, 409, "Email already registered")
                 ELSE [q EXCEPT !.pc = "create"]]
    /\ UNCHANGED <<now, users, todos, todos_id_seq, tokens>>

\* register: UserModel.create; a failed INSERT throws and the catch answers 500.
register_create(r) ==
    /\ req[r].kind = "register" /\ req[r].pc = "create"
    /\ LET q == [req[r] EXCEPT !.queries = @ + 1] IN
       IF UsersUniqueEmail(q.body.email)
       THEN /\ users' = users \cup {UserModel_create(q.body.email, q.body.password)}
            /\ req' = [req EXCEPT ![r] = Reply(q, 201)]
       ELSE /\ users' = users
            /\ req' = [req EXCEPT ![r] = ReplyError(q, 500, "Internal server error")]
    /\ UNCHANGED <<now, todos, todos_id_seq, tokens>>

\* POST /api/users/login: validateLogin, then login up to its query.
validateLogin(r, body) ==
    /\ Free(r)
    /\ LET q == [Arrival("login", NoHeader, <<>>, body) EXCEPT
                   !.emailTaken = (\E u \in users : u.email = body.email.v)] IN
       req' = [req EXCEPT ![r] =
                 IF ~loginSchema(body) THEN ReplyError(q, 400, "error.details[0].message")
                 ELSE [q EXCEPT !.handler = TRUE, !.pc = "findByEmail"]]
    /\ UNCHANGED <<now, users, todos, todos_id_seq, tokens>>

\* A login that tells a missing account from a wrong password.
login_findByEmail_userNotFound(r) ==
    /\ req[r].kind = "login" /\ req[r].pc = "findByEmail"
    /\ LET q == [req[r] EXCEPT !.queries = @ + 1]
           found == UserModel_findByEmail(q.body.email) IN
       IF found = {}
       THEN /\ req' = [req EXCEPT ![r] = ReplyError(q, 404, "User not found")]
            /\ tokens' = tokens
       ELSE LET user == CHOOSE u \in found : TRUE IN
            IF ~UserModel_verifyPassword(q.body.password, user.password_hash)
            THEN /\ req' = [req EXCEPT ![r] = ReplyError(q, 401, "Invalid credentials")]
                 /\ tokens' = tokens
            ELSE LET token == generateToken([userUuid |-> user.uuid, email |-> user.email]) IN
                 /\ req' = [req EXCEPT ![r] = Reply([q EXCEPT !.token = token], 200)]
                 /\ tokens' = Keep(token)
    /\ UNCHANGED <<now, users, todos, todos_id_seq>>

\* login: the result of findByEmail, verifyPassword, generateToken.
login_findByEmail(r) ==
    /\ req[r].kind = "login" /\ req[r].pc = "findByEmail"
    /\ LET q == [req[r] EXCEPT !.queries = @ + 1]
           found == UserModel_findByEmail(q.body.email) IN
       IF found = {}
       THEN /\ req' = [req EXCEPT ![r] = ReplyError(q, 401, "Invalid credentials")]
            /\ tokens' = tokens
       ELSE LET user == CHOOSE u \in found : TRUE IN
            IF ~UserModel_verifyPassword(q.body.password, user.password_hash)
            THEN /\ req' = [req EXCEPT ![r] = ReplyError(q, 401, "Invalid credentials")]
                 /\ tokens' = tokens
            ELSE LET token == generateToken([userUuid |-> user.uuid, email |-> user.email]) IN
                 /\ req' = [req EXCEPT ![r] = Reply([q EXCEPT !.token = token], 200)]
                 /\ tokens' = Keep(token)
    /\ UNCHANGED <<now, users, todos, todos_id_seq>>

\* ----------------------------------------------------------- todo service
\* The rows of a result, as pg returns them.
NoRows == <<>>

\* SELECT * FROM todos WHERE id = $1
TodoModel_findById(id) ==
    IF \E t \in todos : t.id = id THEN <<CHOOSE t \in todos : t.id = id>> ELSE NoRows

\* The rows of a query with ORDER BY created_at ASC.
Listings_ascending(rows) ==
    {s \in [1..Cardinality(rows) -> rows] :
        /\ \A i, j \in DOMAIN s : i # j => s[i] # s[j]
        /\ \A i, j \in DOMAIN s : i < j => s[i].created_at <= s[j].created_at}

\* SELECT * FROM todos WHERE user_uuid = $1 ORDER BY created_at DESC: every
\* order of the caller's rows that the ORDER BY allows.
Listings(rows) ==
    {s \in [1..Cardinality(rows) -> rows] :
        /\ \A i, j \in DOMAIN s : i # j => s[i] # s[j]
        /\ \A i, j \in DOMAIN s : i < j => s[i].created_at >= s[j].created_at}

\* A findByUserUuid whose query lost its WHERE clause.
TodoModel_findByUserUuid_noWhere(userUuid) == Listings(todos)

TodoModel_findByUserUuid(userUuid) == Listings({t \in todos : t.user_uuid = userUuid})

\* A create that numbers the row MAX(id) + 1 instead of using the sequence.
TodoModel_create_maxId(user_uuid, title, description) ==
    [id |-> 1 + (IF todos = {} THEN 0
                 ELSE CHOOSE m \in {t.id : t \in todos} : \A t \in todos : t.id <= m),
     user_uuid |-> user_uuid, title |-> title,
     description |-> IF description = Undefined THEN Null ELSE description,
     completed |-> FALSE, created_at |-> now, updated_at |-> now]

\* A create that returns the caller's item of that title when there is one.
TodoModel_create_dedupe(user_uuid, title, description) ==
    IF \E t \in todos : t.user_uuid = user_uuid /\ t.title = title
    THEN CHOOSE t \in todos : t.user_uuid = user_uuid /\ t.title = title
    ELSE [id |-> todos_id_seq, user_uuid |-> user_uuid, title |-> title,
          description |-> IF description = Undefined THEN Null ELSE description,
          completed |-> FALSE, created_at |-> now, updated_at |-> now]

\* INSERT INTO todos (user_uuid, title, description): the row it adds; id from
\* the sequence, completed FALSE and both timestamps by default.
TodoModel_create(user_uuid, title, description) ==
    [id |-> todos_id_seq, user_uuid |-> user_uuid, title |-> title,
     description |-> IF description = Undefined THEN Null ELSE description,
     completed |-> FALSE, created_at |-> now, updated_at |-> now]

\* A todos table whose user_uuid column references nothing.
TodosForeignKey_none(user_uuid) == TRUE

\* user_uuid REFERENCES users(uuid)
TodosForeignKey(user_uuid) == \E u \in users : u.uuid = user_uuid

\* The text or value of a boolean parameter, as the column takes it.
SqlBoolean(x) == x.v = "true"

\* An update that puts updated_at on the SET list before it looks at its length.
UpdateFields_timestamp(updateData) ==
    {k \in {"title", "description", "completed"} : updateData[k] # Undefined}
    \cup {"updated_at"}

\* TodoModel.update: the SET list is empty when no field is supplied.
UpdateFields(updateData) ==
    {k \in {"title", "description", "completed"} : updateData[k] # Undefined}

\* UPDATE todos SET ... WHERE id = $n AND user_uuid = $m
UpdateWhere(id, userUuid) == {t \in todos : t.id = id /\ t.user_uuid = userUuid}

\* An update that clears the completed flag unless the body supplies one.
TodoModel_update_resetCompleted(t, updateData) ==
    [t EXCEPT
       !.title = IF updateData.title # Undefined THEN updateData.title ELSE @,
       !.description = IF updateData.description # Undefined THEN updateData.description ELSE @,
       !.completed = IF updateData.completed # Undefined THEN SqlBoolean(updateData.completed) ELSE FALSE,
       !.updated_at = now]

\* An update that also sets created_at = CURRENT_TIMESTAMP.
TodoModel_update_created(t, updateData) ==
    [t EXCEPT
       !.title = IF updateData.title # Undefined THEN updateData.title ELSE @,
       !.description = IF updateData.description # Undefined THEN updateData.description ELSE @,
       !.completed = IF updateData.completed # Undefined THEN SqlBoolean(updateData.completed) ELSE @,
       !.created_at = now,
       !.updated_at = now]

\* An update whose updated_at moves only when a column changes value (a
\* BEFORE UPDATE trigger that compares OLD and NEW).
TodoModel_update_whenChanged(t, updateData) ==
    LET n == [t EXCEPT
                !.title = IF updateData.title # Undefined THEN updateData.title ELSE @,
                !.description = IF updateData.description # Undefined THEN updateData.description ELSE @,
                !.completed = IF updateData.completed # Undefined THEN SqlBoolean(updateData.completed) ELSE @]
    IN  IF n = t THEN t ELSE [n EXCEPT !.updated_at = now]

\* An update that flips the completed flag when one is supplied
\* (SET completed = NOT completed).
TodoModel_update_toggle(t, updateData) ==
    [t EXCEPT
       !.title = IF updateData.title # Undefined THEN updateData.title ELSE @,
       !.description = IF updateData.description # Undefined THEN updateData.description ELSE @,
       !.completed = IF updateData.completed # Undefined THEN ~@ ELSE @,
       !.updated_at = now]

\* An update that replaces the whole item: a field that is not supplied is
\* set to its default.
TodoModel_update_replace(t, updateData) ==
    [t EXCEPT
       !.title = IF updateData.title # Undefined THEN updateData.title ELSE @,
       !.description = IF updateData.description # Undefined THEN updateData.description ELSE Null,
       !.completed = IF updateData.completed # Undefined THEN SqlBoolean(updateData.completed) ELSE FALSE,
       !.updated_at = now]

TodoModel_update(t, updateData) ==
    [t EXCEPT
       !.title = IF updateData.title # Undefined THEN updateData.title ELSE @,
       !.description = IF updateData.description # Undefined THEN updateData.description ELSE @,
       !.completed = IF updateData.completed # Undefined THEN SqlBoolean(updateData.completed) ELSE @,
       !.updated_at = now]

\* DELETE FROM todos WHERE id = $1 AND user_uuid = $2
TodoModel_delete(id, userUuid) == {t \in todos : t.id = id /\ t.user_uuid = userUuid}

\* An updateTodo that leaves the ownership to the UPDATE's WHERE clause.
updateTodo_check_noOwner(existingTodo, userUuid) ==
    IF existingTodo = NoRows THEN 404 ELSE 0

\* updateTodo / deleteTodo after findById: 404 without a row, 403 for a row of
\* another user, else 0 (go on).
updateTodo_check(existingTodo, userUuid) ==
    IF existingTodo = NoRows THEN 404
    ELSE IF existingTodo[1].user_uuid # userUuid THEN 403
    ELSE 0

deleteTodo_check(existingTodo, userUuid) ==
    IF existingTodo = NoRows THEN 404
    ELSE IF existingTodo[1].user_uuid # userUuid THEN 403
    ELSE 0

\* router.use(authenticateToken): the request after the middleware.
Authenticated(q) ==
    LET a == authenticateToken(q.header) IN
    IF a.next THEN [q EXCEPT !.user = a.user, !.handler = TRUE]
    ELSE Reply(q, a.status)

\* POST /api/todos: authenticateToken, then createTodo up to its INSERT.
\* Reading req.user.userUuid of a request without a user throws (500).
createTodo(r, header, body) ==
    /\ Free(r)
    /\ LET q == Authenticated(Arrival("createTodo", header, <<>>, body)) IN
       req' = [req EXCEPT ![r] =
                 IF ~q.handler THEN q
                 ELSE IF ~createTodoSchema(body) THEN Reply(q, 400)
                 ELSE IF q.user = NoUser THEN Reply(q, 500)
                 ELSE [q EXCEPT !.pc = "insert"]]
    /\ UNCHANGED <<now, users, todos, todos_id_seq, tokens>>

\* createTodo: TodoModel.create.  The sequence advances even when the INSERT
\* fails on the foreign key; the catch then answers 500.
createTodo_insert(r) ==
    /\ req[r].kind = "createTodo" /\ req[r].pc = "insert"
    /\ todos_id_seq <= MaxItems
    /\ todos_id_seq' = todos_id_seq + 1
    /\ LET q == [req[r] EXCEPT !.queries = @ + 1]
           todo == TodoModel_create(q.user.userUuid, q.body.title, q.body.description) IN
       IF TodosForeignKey(q.user.userUuid)
       THEN /\ todos' = todos \cup {todo}
            /\ req' = [req EXCEPT ![r] = Reply([q EXCEPT !.todos = <<todo>>], 201)]
       ELSE /\ todos' = todos
            /\ req' = [req EXCEPT ![r] = Reply(q, 500)]
    /\ UNCHANGED <<now, users, tokens>>

\* GET /api/todos: authenticateToken, then getTodos up to its query.
getTodos(r, header) ==
    /\ Free(r)
    /\ LET q == Authenticated(Arrival("getTodos", header, <<>>, EmptyBody)) IN
       req' = [req EXCEPT ![r] =
                 IF ~q.handler THEN q
                 ELSE IF q.user = NoUser THEN Reply(q, 500)
                 ELSE [q EXCEPT !.pc = "query"]]
    /\ UNCHANGED <<now, users, todos, todos_id_seq, tokens>>

getTodos_query(r) ==
    /\ req[r].kind = "getTodos" /\ req[r].pc = "query"
    /\ \E rows \in TodoModel_findByUserUuid(req[r].user.userUuid) :
         req' = [req EXCEPT ![r] =
                   Reply([req[r] EXCEPT !.queries = @ + 1, !.todos = rows,
                                        !.scanned = Cardinality(todos)], 200)]
    /\ UNCHANGED <<now, users, todos, todos_id_seq, tokens>>

\* PUT /api/todos/:id: authenticateToken, then updateTodo up to findById.
updateTodo(r, header, idParam, body) ==
    /\ Free(r)
    /\ LET q == Authenticated(Arrival("updateTodo", header, idParam, body)) IN
       req' = [req EXCEPT ![r] =
                 IF ~q.handler THEN q
                 ELSE IF ~updateTodoSchema(body) THEN Reply(q, 400)
                 ELSE IF q.user = NoUser THEN Reply(q, 500)
                 ELSE IF parseInt(idParam).nan THEN Reply(q, 400)
                 ELSE [q EXCEPT !.pc = "findById"]]
    /\ UNCHANGED <<now, users, todos, todos_id_seq, tokens>>

\* An updateTodo that writes the row findById returned before it looks at
\* the owner.
updateTodo_findById_writeFirst(r) ==
    /\ req[r].kind = "updateTodo" /\ req[r].pc = "findById"
    /\ LET q == [req[r] EXCEPT !.queries = @ + 1]
           todoId == Int4In(parseInt(q.idParam).digits, 0)
           found == TodoModel_findById(todoId)
           check == updateTodo_check(found, q.user.userUuid) IN
       /\ req' = [req EXCEPT ![r] =
                    IF todoId = -1 THEN Reply(q, 500)
                    ELSE IF check # 0 THEN Reply(q, check)
                    ELSE IF UpdateFields(q.body) = {} THEN Reply(q, 404)
                    ELSE [q EXCEPT !.pc = "update"]]
       /\ todos' = IF todoId = -1 \/ found = NoRows THEN todos
                   ELSE (todos \ {found[1]}) \cup {TodoModel_update(found[1], q.body)}
    /\ UNCHANGED <<now, users, todos_id_seq, tokens>>

\* updateTodo: the result of findById, the two checks, and TodoModel.update up
\* to its UPDATE (it returns null, hence 404, when no field is supplied).
updateTodo_findById(r) ==
    /\ req[r].kind = "updateTodo" /\ req[r].pc = "findById"
    /\ LET q == [req[r] EXCEPT !.queries = @ + 1]
           todoId == Int4In(parseInt(q.idParam).digits, 0)
           check == updateTodo_check(TodoModel_findById(todoId), q.user.userUuid) IN
       req' = [req EXCEPT ![r] =
                 IF todoId = -1 THEN Reply(q, 500)
                 ELSE IF check # 0 THEN Reply(q, check)
                 ELSE IF UpdateFields(q.body) = {} THEN Reply(q, 404)
                 ELSE [q EXCEPT !.pc = "update"]]
    /\ UNCHANGED <<now, users, todos, todos_id_seq, tokens>>

\* An updateTodo that writes with INSERT ... ON CONFLICT (id) DO UPDATE.
updateTodo_update_upsert(r) ==
    /\ req[r].kind = "updateTodo" /\ req[r].pc = "update"
    /\ LET q == [req[r] EXCEPT !.queries = @ + 1]
           todoId == Int4In(parseInt(q.idParam).digits, 0)
           matched == UpdateWhere(todoId, q.user.userUuid) IN
       IF matched = {}
       THEN LET todo == TodoModel_update(
                            [id |-> todoId, user_uuid |-> q.user.userUuid,
                             title |-> Null, description |-> Null, completed |-> FALSE,
                             created_at |-> now, updated_at |-> now], q.body) IN
            /\ todos' = todos \cup {todo}
            /\ req' = [req EXCEPT ![r] = Reply([q EXCEPT !.todos = <<todo>>], 200)]
       ELSE LET old == CHOOSE t \in matched : TRUE
                updatedTodo == TodoModel_update(old, q.body) IN
            /\ todos' = (todos \ {old}) \cup {updatedTodo}
            /\ req' = [req EXCEPT ![r] = Reply([q EXCEPT !.todos = <<updatedTodo>>], 200)]
    /\ UNCHANGED <<now, users, todos_id_seq, tokens>>

\* updateTodo: the UPDATE; 404 when it matched no row.
updateTodo_update(r) ==
    /\ req[r].kind = "updateTodo" /\ req[r].pc = "update"
    /\ LET q == [req[r] EXCEPT !.queries = @ + 1]
           todoId == Int4In(parseInt(q.idParam).digits, 0)
           matched == UpdateWhere(todoId, q.user.userUuid) IN
       IF matched = {}
       THEN /\ todos' = todos
            /\ req' = [req EXCEPT ![r] = Reply(q, 404)]
       ELSE LET old == CHOOSE t \in matched : TRUE
                updatedTodo == TodoModel_update(old, q.body) IN
            /\ todos' = (todos \ {old}) \cup {updatedTodo}
            /\ req' = [req EXCEPT ![r] = Reply([q EXCEPT !.todos = <<updatedTodo>>], 200)]
    /\ UNCHANGED <<now, users, todos_id_seq, tokens>>

\* DELETE /api/todos/:id: authenticateToken, then deleteTodo up to findById.
deleteTodo(r, header, idParam) ==
    /\ Free(r)
    /\ LET q == Authenticated(Arrival("deleteTodo", header, idParam, EmptyBody)) IN
       req' = [req EXCEPT ![r] =
                 IF ~q.handler THEN q
                 ELSE IF q.user = NoUser THEN Reply(q, 500)
                 ELSE IF parseInt(idParam).nan THEN Reply(q, 400)
                 ELSE [q EXCEPT !.pc = "findById"]]
    /\ UNCHANGED <<now, users, todos, todos_id_seq, tokens>>

deleteTodo_findById(r) ==
    /\ req[r].kind = "deleteTodo" /\ req[r].pc = "findById"
    /\ LET q == [req[r] EXCEPT !.queries = @ + 1]
           todoId == Int4In(parseInt(q.idParam).digits, 0)
           check == deleteTodo_check(TodoModel_findById(todoId), q.user.userUuid) IN
       req' = [req EXCEPT ![r] =
                 IF todoId = -1 THEN Reply(q, 500)
                 ELSE IF check # 0 THEN Reply(q, check)
                 ELSE [q EXCEPT !.pc = "delete"]]
    /\ UNCHANGED <<now, users, todos, todos_id_seq, tokens>>

\* A deleteTodo that does not look at the DELETE's row count.
deleteTodo_delete_anyCount(r) ==
    /\ req[r].kind = "deleteTodo" /\ req[r].pc = "delete"
    /\ LET q == [req[r] EXCEPT !.queries = @ + 1]
           todoId == Int4In(parseInt(q.idParam).digits, 0)
           deleted == TodoModel_delete(todoId, q.user.userUuid) IN
       /\ todos' = todos \ deleted
       /\ req' = [req EXCEPT ![r] = Reply(q, 204)]
    /\ UNCHANGED <<now, users, todos_id_seq, tokens>>

\* deleteTodo: the DELETE; 404 when it removed no row.
deleteTodo_delete(r) ==
    /\ req[r].kind = "deleteTodo" /\ req[r].pc = "delete"
    /\ LET q == [req[r] EXCEPT !.queries = @ + 1]
           todoId == Int4In(parseInt(q.idParam).digits, 0)
           deleted == TodoModel_delete(todoId, q.user.userUuid) IN
       /\ todos' = todos \ deleted
       /\ req' = [req EXCEPT ![r] = Reply(q, IF deleted # {} THEN 204 ELSE 404)]
    /\ UNCHANGED <<now, users, todos_id_seq, tokens>>

TodoStep(r) ==
    \/ createTodo_insert(r)
    \/ getTodos_query(r)
    \/ updateTodo_findById(r) \/ updateTodo_update(r)
    \/ deleteTodo_findById(r) \/ deleteTodo_delete(r)

\* The client has read the response; the connection is idle again.
Close(r) ==
    /\ req[r].pc = "done"
    /\ req' = [req EXCEPT ![r] = Idle]
    /\ UNCHANGED <<now, users, todos, todos_id_seq, tokens>>

\* An hour passes.
Tick ==
    /\ now < MaxClock
    /\ now' = now + 1
    /\ UNCHANGED <<users, todos, todos_id_seq, req, tokens>>

\* ------------------------------------------------------------ the clients
\* The clients stop creating once the sequence, with the INSERTs in flight,
\* has handed out n values.
Pending == Cardinality({r \in Slots : req[r].pc = "insert"})
Room(n) == todos_id_seq + Pending <= n

Emails == {Str("a@example.com", 13), Str("b@example.com", 13), Str("invalid-email", 13)}
Passwords == {Str("password123", 11), Str("wrongpassword", 13), Str("123", 3)}
Credentials == {Body([email |-> e, password |-> p]) : e \in Emails, p \in Passwords}

UserRequest(r) ==
    \E body \in Credentials : validateRegister(r, body) \/ validateLogin(r, body)

UserStep(r) ==
    register_findByEmail(r) \/ register_create(r) \/ login_findByEmail(r)

\* The connections are alike: a request goes to the first free one.
First(r) == \A o \in Slots : o < r => ~Free(o)

\* No request is in flight.
Quiet == \A r \in Slots : Free(r)

\* Every response has been read.
Settled == \A r \in Slots : req[r].pc = "idle"

\* The user service alone.
NextUsers == \E r \in Slots : (First(r) /\ UserRequest(r)) \/ UserStep(r)

SpecUsers == Init /\ [][NextUsers]_vars

\* A token a client makes itself: the payload of one it holds, signed with a
\* key of its own.
Forge(token) == [token EXCEPT !.sig = "attacker-key"]

\* Two users who sign up and log in, and then work on their todos with the
\* tokens they got or with a token forged for the other.
Accounts ==
    {Body([email |-> Str("a@example.com", 13), password |-> Str("password123", 11)]),
     Body([email |-> Str("b@example.com", 13), password |-> Str("password123", 11)])}

Headers == {Bearer(t) : t \in tokens} \cup {Bearer(Forge(t)) : t \in tokens}

CreateBodies == {Body([title |-> Str("Buy milk", 8)])}

UpdateBodies == {Body([title |-> Str("Buy bread", 9), completed |-> Bool(TRUE)])}

\* The path segments that name the ids the sequence hands out.
Decimal == <<"1", "2", "3", "4", "5", "6", "7", "8", "9">>
IdParams == {<<Decimal[i]>> : i \in 1..MaxTodos}

AccountRequest(r) ==
    \E body \in Accounts : validateRegister(r, body) \/ validateLogin(r, body)

TodoRequest(r) ==
    \E header \in Headers :
        \/ Room(MaxTodos) /\ \E body \in CreateBodies : createTodo(r, header, body)
        \/ getTodos(r, header)
        \/ \E idParam \in IdParams, body \in UpdateBodies : updateTodo(r, header, idParam, body)
        \/ \E idParam \in IdParams : deleteTodo(r, header, idParam)

Next ==
    \E r \in Slots :
        \/ First(r) /\ (AccountRequest(r) \/ TodoRequest(r))
        \/ UserStep(r) \/ TodoStep(r)

Spec == Init /\ [][Next]_vars

\* One request at a time, of every shape: headers without a token, bodies the
\* schemas refuse, path segments that are no id.
InputHeaders ==
    {NoHeader, Header(<<Word("Bearer")>>)} \cup {Bearer(t) : t \in tokens}

InputCreateBodies ==
    {Body([title |-> Str("Buy milk", 8)]),
     Body([title |-> Str("Buy milk", 8), description |-> Str("2%", 2)]),
     Body([description |-> Str("2%", 2)]),
     Body([title |-> Str("Buy milk", 8), user_uuid |-> Str("u1", 2)]),
     Body([title |-> Str("Buy milk", 8), completed |-> Bool(TRUE)]),
     Body([title |-> Str("long title", TitleMax + 1)])}

InputUpdateBodies ==
    {Body([title |-> Str("Buy bread", 9), completed |-> Bool(TRUE)]),
     Body([completed |-> Bool(TRUE)]),
     Body([description |-> Str("1%", 2)]),
     Body([completed |-> Str("true", 4)]),
     EmptyBody,
     Body([title |-> Num("42")]),
     Body([description |-> Str("", 0)])}

InputIdParams ==
    IdParams \cup {<<Decimal[MaxTodos + 1]>>, <<"1", "x">>, <<"x">>,
                   <<"9", "9", "9", "9", "9", "9", "9", "9", "9", "9">>}

InputRequest(r) ==
    \E header \in InputHeaders :
        \/ Room(MaxTodos) /\ \E body \in InputCreateBodies : createTodo(r, header, body)
        \/ getTodos(r, header)
        \/ \E idParam \in InputIdParams, body \in InputUpdateBodies :
              updateTodo(r, header, idParam, body)
        \/ \E idParam \in InputIdParams : deleteTodo(r, header, idParam)

NextInput ==
    \E r \in Slots :
        \/ Settled /\ First(r) /\ (AccountRequest(r) \/ InputRequest(r))
        \/ UserStep(r) \/ TodoStep(r)
        \/ Close(r)

SpecInput == Init /\ [][NextInput]_vars

\* One user whose tokens age: it logs in during the first hours and then,
\* hour after hour, sends requests with the tokens it holds, with forged
\* ones and with text that is no token.  It adds an item when it sees none.
JwtAccounts ==
    {Body([email |-> Str("a@example.com", 13), password |-> Str("password123", 11)])}

JwtHeaders ==
    {Bearer(t) : t \in tokens} \cup {Bearer(Forge(t)) : t \in tokens}
    \cup {Bearer(Word("not-a-token"))}

JwtLogins ==
    JwtAccounts \cup
    {Body([email |-> Str("a@example.com", 13), password |-> Str("wrongpassword", 13)])}

JwtAccountRequest(r) ==
    \/ \E body \in JwtAccounts : validateRegister(r, body)
    \/ \E body \in JwtLogins : now <= MaxLoginHour /\ validateLogin(r, body)

JwtUpdateBodies == UpdateBodies \cup {EmptyBody}

JwtTodoRequest(r) ==
    \E header \in JwtHeaders :
        \/ todos = {} /\ Room(MaxTodos) /\ \E body \in CreateBodies : createTodo(r, header, body)
        \/ getTodos(r, header)
        \/ \E idParam \in IdParams, body \in JwtUpdateBodies : updateTodo(r, header, idParam, body)
        \/ \E idParam \in IdParams : deleteTodo(r, header, idParam)

NextJwt ==
    \/ \E r \in Slots :
          \/ Settled /\ First(r) /\ (JwtAccountRequest(r) \/ JwtTodoRequest(r))
          \/ UserStep(r) \/ TodoStep(r)
          \/ Close(r)
    \/ Settled /\ Tick

SpecJwt == Init /\ [][NextJwt]_vars

\* Two users who add, change, list and remove items one request at a time,
\* as long as the sequence has ids to hand out.
LifeIdParams == {<<Decimal[i]>> : i \in 1..MaxItems}

LifeUpdateBodies ==
    UpdateBodies \cup
    {Body([title |-> Num("42")]),
     Body([title |-> Str("Buy bread", 9), user_uuid |-> Str("u2", 2)])}

LifeRequest(r) ==
    \E token \in tokens :
        \/ Room(MaxItems) /\ \E body \in CreateBodies : createTodo(r, Bearer(token), body)
        \/ getTodos(r, Bearer(token))
        \/ \E idParam \in LifeIdParams, body \in LifeUpdateBodies :
              updateTodo(r, Bearer(token), idParam, body)
        \/ \E idParam \in LifeIdParams : deleteTodo(r, Bearer(token), idParam)

NextLife ==
    \E r \in Slots :
        \/ Settled /\ First(r) /\ (AccountRequest(r) \/ LifeRequest(r))
        \/ UserStep(r) \/ TodoStep(r)
        \/ Close(r)

SpecLife == Init /\ [][NextLife]_vars

\* The same two users, signed up and logged in during the first hour, while
\* hours pass between their requests.
ListTick ==
    /\ now < MaxListHour
    /\ Tick

NextList ==
    \/ \E r \in Slots :
          \/ Settled /\ First(r) /\ ((now = 0 /\ AccountRequest(r)) \/ LifeRequest(r))
          \/ UserStep(r) \/ TodoStep(r)
          \/ Close(r)
    \/ Settled /\ ListTick

SpecList == Init /\ [][NextList]_vars

\* One user whose two connections change the same item at once: one request
\* renames it, another completes it, a third renames it differently.
RaceUpdateBodies ==
    {Body([title |-> Str("Buy bread", 9)]),
     Body([completed |-> Bool(TRUE)]),
     Body([title |-> Str("Buy eggs", 8)])}

RaceRequest(r) ==
    \E token \in tokens :
        \/ Room(MaxTodos) /\ \E body \in CreateBodies : createTodo(r, Bearer(token), body)
        \/ getTodos(r, Bearer(token))
        \/ \E idParam \in IdParams, body \in RaceUpdateBodies :
              updateTodo(r, Bearer(token), idParam, body)
        \/ \E idParam \in IdParams : deleteTodo(r, Bearer(token), idParam)

NextRace ==
    \E r \in Slots :
        \/ First(r) /\ (JwtAccountRequest(r) \/ RaceRequest(r))
        \/ UserStep(r) \/ TodoStep(r)

SpecRace == Init /\ [][NextRace]_vars

\* The frontend's TodoPage.  Its todos state is the list fetchTodos got; with
\* one request at a time that is the caller's rows of the table.  A column
\* reaches the page as JSON: a boolean column as a boolean, NULL as null.
JsonBoolean(b) == Bool(b)

\* handleCreateTodo: title, and description when the form has one.
FrontendCreateBodies ==
    {Body([title |-> Str("Buy milk", 8)]),
     Body([title |-> Str("Buy milk", 8), description |-> Str("2%", 2)])}

\* handleUpdateTodo(todo): updateData is the item's title, description and
\* completed.
handleUpdateTodo(r, token, todo) ==
    updateTodo(r, Bearer(token), <<Decimal[todo.id]>>,
               Body([title |-> todo.title, description |-> todo.description,
                     completed |-> JsonBoolean(todo.completed)]))

\* toggleComplete(todo): handleUpdateTodo({ ...todo, completed: !todo.completed })
toggleComplete(r, token, todo) ==
    handleUpdateTodo(r, token, [todo EXCEPT !.completed = ~todo.completed])

\* handleDeleteTodo(id)
handleDeleteTodo(r, token, id) == deleteTodo(r, Bearer(token), <<Decimal[id]>>)

FrontendRequest(r) ==
    \E token \in tokens :
        \/ Room(MaxItems) /\ \E body \in FrontendCreateBodies : createTodo(r, Bearer(token), body)
        \/ getTodos(r, Bearer(token))
        \/ \E todo \in {t \in todos : t.user_uuid = token.userUuid} :
              \/ toggleComplete(r, token, todo)
              \/ handleDeleteTodo(r, token, todo.id)

NextFrontend ==
    \E r \in Slots :
        \/ Settled /\ First(r) /\ (AccountRequest(r) \/ FrontendRequest(r))
        \/ UserStep(r) \/ TodoStep(r)
        \/ Close(r)

SpecFrontend == Init /\ [][NextFrontend]_vars

\* The test suite's client: it signs a token for its test user with the
\* server's secret, without an account, and sends requests with it, one at a
\* time, over either connection, while the account table fills.
testUser == [userUuid |-> "u1", email |-> "test@example.com"]

Mint ==
    /\ generateToken(testUser) \notin tokens
    /\ tokens' = Keep(generateToken(testUser))
    /\ UNCHANGED <<now, users, todos, todos_id_seq, req>>

MintRequest(r) ==
    \/ \E body \in JwtAccounts : validateRegister(r, body) \/ validateLogin(r, body)
    \/ \E token \in tokens :
          \/ Room(MaxTodos) /\ \E body \in CreateBodies : createTodo(r, Bearer(token), body)
          \/ getTodos(r, Bearer(token))
          \/ \E idParam \in IdParams, body \in UpdateBodies :
                updateTodo(r, Bearer(token), idParam, body)
          \/ \E idParam \in IdParams : deleteTodo(r, Bearer(token), idParam)

NextMint ==
    \/ Quiet /\ Mint
    \/ \E r \in Slots :
          \/ Quiet /\ MintRequest(r)
          \/ UserStep(r) \/ TodoStep(r)

SpecMint == Init /\ [][NextMint]_vars

\* ================================================================= claims
TodoKinds == {"createTodo", "getTodos", "updateTodo", "deleteTodo"}

\* The token a request carries, and whether the todo service's key signed it.
TokenOf(q) == HeaderToken(q.header)
Genuine(token) == token.raw = "jwt" /\ token.sig = JWT_SECRET

\* The id a request's path segment names (0 when it names none).
TodoIdOf(q) == IF parseInt(q.idParam).nan THEN 0 ELSE Int4In(parseInt(q.idParam).digits, 0)

\* Connection r answers its request in this step.
Answers(r) == req'[r] # req[r] /\ req'[r].pc = "done"

\* The request carries a token the service accepts when it arrives.
ValidToken(q) == Genuine(TokenOf(q)) /\ q.at < TokenOf(q).exp

\* The request's path segment names a row of another user / of nobody.
NamesRowOfAnother(q) ==
    \E t \in todos : t.id = TodoIdOf(q) /\ t.user_uuid # TokenOf(q).userUuid
NamesNoRow(q) == \A t \in todos : t.id # TodoIdOf(q)

\* The row t keeps its title, description and completed flag in this step.
Kept(t) ==
    \E n \in todos' :
        /\ n.id = t.id
        /\ n.title = t.title /\ n.description = t.description /\ n.completed = t.completed

\* C1: in every step, a row that loses its title, description or completed
\* flag, or is removed, does so in the UPDATE or DELETE of a request for that
\* id whose token is signed with the service's key, is unexpired and carries
\* the row's owner; a request with any other identity changes nothing.
C1_OnlyOwnerMutates ==
    [][\A t \in todos :
          ~Kept(t) =>
             \E r \in Slots :
                /\ req[r].kind \in {"updateTodo", "deleteTodo"}
                /\ req[r].pc \in {"update", "delete"} /\ Answers(r)
                /\ TodoIdOf(req[r]) = t.id
                /\ Genuine(TokenOf(req[r])) /\ req[r].at < TokenOf(req[r]).exp
                /\ TokenOf(req[r]).userUuid = t.user_uuid]_vars

\* C1 witness: the owner's update went through while another user's request
\* for the same item was refused.
C1_Witness ==
    \E r, o \in Slots :
        /\ req[r].kind = "updateTodo" /\ req[r].status = 200
        /\ req[o].kind \in {"updateTodo", "deleteTodo"} /\ req[o].status = 403
        /\ req[o].idParam = req[r].idParam
        /\ Genuine(TokenOf(req[o]))

\* C2: the rows of every answered GET /api/todos belong to the identity of
\* the token it was sent with.
C2_ListOwnRowsOnly ==
    \A r \in Slots :
        (req[r].kind = "getTodos" /\ req[r].status = 200) =>
            \A i \in DOMAIN req[r].todos :
                req[r].todos[i].user_uuid = TokenOf(req[r]).userUuid

\* C2 witness: a list answered while the table held more rows than it
\* returned, the rest being another user's.
C2_Witness ==
    \E r \in Slots :
        /\ req[r].kind = "getTodos" /\ req[r].status = 200
        /\ req[r].scanned > Len(req[r].todos)

\* C3 as stated: whenever an update or delete with a valid token is answered
\* while the row it names exists and belongs to another user, the answer is 403.
C3_AsStated ==
    [][\A r \in Slots :
          (/\ Answers(r) /\ req'[r].kind \in {"updateTodo", "deleteTodo"}
           /\ ValidToken(req'[r]) /\ NamesRowOfAnother(req'[r]))
          => req'[r].status = 403]_vars

\* C3: a delete, or an update whose body passes updateTodoSchema, sent with a
\* valid token and answered while the row it names exists and belongs to
\* another user, is answered 403 (never 404).
C3_ForbiddenNotNotFound ==
    [][\A r \in Slots :
          (/\ Answers(r) /\ req'[r].kind \in {"updateTodo", "deleteTodo"}
           /\ ValidToken(req'[r]) /\ NamesRowOfAnother(req'[r])
           /\ req'[r].kind = "deleteTodo" \/ updateTodoSchema(req'[r].body))
          => req'[r].status = 403]_vars

\* C3 witness: an update with a valid body and a delete, each refused with 403
\* on a row of another user.
C3_Witness ==
    \E r \in Slots :
        /\ req[r].kind = "updateTodo" /\ updateTodoSchema(req[r].body)
        /\ ValidToken(req[r]) /\ NamesRowOfAnother(req[r])
        /\ req[r].status = 403 /\ req[r].queries = 1

\* C4: an update whose body passes updateTodoSchema, or a delete, sent with
\* a valid token to a numeric id that no row has, is answered 404, whoever
\* the caller is.
C4_NotFoundForEveryId ==
    [][\A r \in Slots :
          (/\ Answers(r) /\ req'[r].kind \in {"updateTodo", "deleteTodo"}
           /\ ValidToken(req'[r]) /\ NamesNoRow(req'[r])
           /\ req'[r].kind = "deleteTodo" \/ updateTodoSchema(req'[r].body)
           /\ req'[r].idParam # <<>>
           /\ \A i \in 1..Len(req'[r].idParam) : req'[r].idParam[i] \in Digits)
          => req'[r].status = 404]_vars

\* C5: a request to a todo endpoint without an Authorization header is
\* answered 401, its handler is not invoked, it gets no identity and no
\* statement is run for it.
C5_NoHeaderNoAccess ==
    \A r \in Slots :
        (req[r].kind \in TodoKinds /\ ~req[r].header.present) =>
            /\ req[r].pc = "done" /\ req[r].status = 401
            /\ ~req[r].handler /\ req[r].user = NoUser
            /\ req[r].queries = 0 /\ req[r].todos = <<>>

\* C5 witness: such a request, refused while the table holds a row.
C5_Witness ==
    \E r \in Slots :
        /\ req[r].kind \in {"updateTodo", "deleteTodo"} /\ ~req[r].header.present
        /\ req[r].status = 401 /\ ~NamesNoRow(req[r])

\* C6: a request to a todo endpoint whose token is malformed, carries a
\* signature made with another key, or has reached its expiry when the request
\* arrives is answered 401; its handler does not run, it gets no identity and
\* no statement is run for it.
C6_BadTokenRejected ==
    \A r \in Slots :
        LET token == TokenOf(req[r]) IN
        (/\ req[r].kind \in TodoKinds /\ token.raw # ""
         /\ \/ token.raw # "jwt"
            \/ token.sig # JWT_SECRET
            \/ req[r].at >= token.exp)
        => /\ req[r].pc = "done" /\ req[r].status = 401
           /\ ~req[r].handler /\ req[r].user = NoUser
           /\ req[r].queries = 0 /\ req[r].todos = <<>>

\* C6 witness: a token the service issued, refused after its expiry while its
\* owner's row exists.
C6_Witness ==
    \E r \in Slots :
        /\ req[r].kind \in {"updateTodo", "deleteTodo"} /\ Genuine(TokenOf(req[r]))
        /\ req[r].at > TokenOf(req[r]).exp /\ req[r].status = 401
        /\ \E t \in todos : t.id = TodoIdOf(req[r]) /\ t.user_uuid = TokenOf(req[r]).userUuid

\* C7: a request carrying a token issued at login at hour t is let through
\* to its handler, under the token's identity, exactly when it arrives before
\* hour t + 24; from t + 24 on it is answered 401.
C7_ValidFor24Hours ==
    \A r \in Slots :
        LET token == TokenOf(req[r]) IN
        (req[r].kind \in TodoKinds /\ token \in tokens) =>
            IF req[r].at < token.iat + 24
            THEN /\ req[r].handler /\ req[r].status # 401
                 /\ req[r].user = [userUuid |-> token.userUuid, email |-> token.email]
            ELSE /\ ~req[r].handler /\ req[r].status = 401 /\ req[r].user = NoUser

\* C7 witness: a token issued after hour 0, accepted in its last hour.
C7_Witness ==
    \E r \in Slots :
        /\ req[r].kind = "getTodos" /\ TokenOf(req[r]) \in tokens
        /\ TokenOf(req[r]).iat > 0 /\ req[r].at = TokenOf(req[r]).iat + 23
        /\ req[r].status = 200

\* C8: two requests that carry the same token and arrive at the same time
\* are verified alike, whatever the users and todos tables hold when each
\* arrives.
C8_SameTokenSameOutcome ==
    \A r, o \in Slots :
        (/\ req[r].kind \in TodoKinds /\ req[o].kind \in TodoKinds
         /\ TokenOf(req[r]).raw # "" /\ TokenOf(req[r]) = TokenOf(req[o])
         /\ req[r].at = req[o].at)
        => /\ req[r].handler = req[o].handler
           /\ req[r].user = req[o].user

\* C8 witness: the same token at the same time, once before its identity had
\* an account (the INSERT failed on the foreign key) and once after the table
\* had changed (the list was served), accepted both times.
C8_Witness ==
    \E r, o \in Slots :
        /\ req[r].kind = "createTodo" /\ req[r].status = 500 /\ req[r].queries = 1
        /\ req[o].kind = "getTodos" /\ req[o].status = 200
        /\ TokenOf(req[r]) = TokenOf(req[o]) /\ req[r].at = req[o].at
        /\ req[r].user = req[o].user /\ req[r].user # NoUser
        /\ \E u \in users : u.uuid = req[o].user.userUuid

\* C9 as stated: a register request that arrives when an account with its
\* email exists never reaches the INSERT and is answered 409, whatever its
\* password; no email has two accounts.
C9_AsStated ==
    /\ \A r \in Slots :
          (req[r].kind = "register" /\ req[r].emailTaken) =>
              /\ req[r].pc \in {"findByEmail", "done"}
              /\ req[r].pc = "done" => req[r].status = 409
    /\ \A u, v \in users : u.email = v.email => u = v

\* C9: a register request whose body passes registerSchema (a password of at
\* least 6 characters) and that arrives when an account with its email exists
\* never reaches the INSERT and is answered 409; no email has two accounts.
C9_DuplicateEmailConflict ==
    /\ \A r \in Slots :
          (req[r].kind = "register" /\ req[r].emailTaken /\ registerSchema(req[r].body)) =>
              /\ req[r].pc \in {"findByEmail", "done"}
              /\ req[r].pc = "done" => req[r].status = 409
    /\ \A u, v \in users : u.email = v.email => u = v

\* C9 witness: the second request, with another password than the account's,
\* answered 409.
C9_Witness ==
    \E r \in Slots :
        /\ req[r].kind = "register" /\ req[r].emailTaken /\ req[r].status = 409
        /\ \E u \in users :
              /\ u.email = req[r].body.email.v
              /\ ~UserModel_verifyPassword(req[r].body.password, u.password_hash)

\* C10: of two register requests with the same valid email that both arrived
\* before an account with it existed, one is answered 201 and the other 409.
C10_OneCreatedOthersConflict ==
    \A r, o \in Slots :
        (/\ r # o
         /\ req[r].kind = "register" /\ req[o].kind = "register"
         /\ registerSchema(req[r].body) /\ registerSchema(req[o].body)
         /\ req[r].body.email = req[o].body.email
         /\ ~req[r].emailTaken /\ ~req[o].emailTaken
         /\ req[r].pc = "done" /\ req[o].pc = "done")
        => {req[r].status, req[o].status} = {201, 409}

\* C11: no two rows of users have the same email, in every state, including
\* those reached by register requests that run concurrently.
C11_EmailUnique ==
    \A u, v \in users : u.email = v.email => u = v

\* C11 witness: two register requests for one email that both passed
\* findByEmail; one INSERT was refused, and the email has one account.
C11_Witness ==
    \E r, o \in Slots :
        /\ req[r].kind = "register" /\ req[o].kind = "register"
        /\ req[r].body.email = req[o].body.email
        /\ req[r].status = 201 /\ req[o].status = 500 /\ req[o].queries = 2
        /\ Cardinality({u \in users : u.email = req[r].body.email.v}) = 1

\* What the client sees of a response.
Response(q) == [status |-> q.status, error |-> q.error, token |-> q.token]

\* The login found no account: none has its email even now.
LoginNoAccount(q) ==
    /\ q.kind = "login" /\ q.pc = "done" /\ q.handler
    /\ \A u \in users : u.email # q.body.email.v

\* The login found an account, there since before the request arrived, that
\* its password does not open.
LoginWrongPassword(q) ==
    /\ q.kind = "login" /\ q.pc = "done" /\ q.handler /\ q.emailTaken
    /\ \E u \in users :
          /\ u.email = q.body.email.v
          /\ ~UserModel_verifyPassword(q.body.password, u.password_hash)

\* C12: a login for an email without an account and a login with a wrong
\* password for an email with one get the same response: status 401 and the
\* same error text, no token.
C12_LoginFailuresAlike ==
    \A r, o \in Slots :
        (LoginNoAccount(req[r]) /\ LoginWrongPassword(req[o])) =>
            /\ Response(req[r]) = Response(req[o])
            /\ req[r].status = 401 /\ req[r].error = "Invalid credentials"

\* C12 witness: the two failures side by side.
C12_Witness ==
    \E r, o \in Slots :
        /\ LoginNoAccount(req[r]) /\ LoginWrongPassword(req[o])
        /\ req[r].body.password # req[o].body.password
        /\ req[r].status = 401 /\ req[o].status = 401

\* C13: a login is answered 200 only when an account has its email and a
\* password hash made from its password; the token it returns carries that
\* account's uuid and email, and until the token expires verifyToken and
\* every request sent with it get exactly that identity.
C13_LoginTokenIdentity ==
    /\ \A r \in Slots :
          (req[r].kind = "login" /\ req[r].status = 200) =>
              \E u \in users :
                  /\ u.email = req[r].body.email.v
                  /\ u.password_hash = bcrypt_hash(req[r].body.password, saltRounds)
                  /\ req[r].token.userUuid = u.uuid /\ req[r].token.email = u.email
                  /\ now < req[r].token.exp =>
                        verifyToken(req[r].token) = [userUuid |-> u.uuid, email |-> u.email]
    /\ \A t \in tokens :
          \E u \in users :
              /\ t.userUuid = u.uuid /\ t.email = u.email
              /\ now < t.exp => verifyToken(t) = [userUuid |-> u.uuid, email |-> u.email]
    /\ \A r \in Slots :
          (/\ req[r].kind \in TodoKinds /\ TokenOf(req[r]) \in tokens
           /\ req[r].at < TokenOf(req[r]).exp) =>
              \E u \in users :
                  /\ u.email = TokenOf(req[r]).email
                  /\ req[r].user = [userUuid |-> u.uuid, email |-> u.email]

\* C13 witness: hours after the login, before the expiry, a request sent with
\* the token runs under the account's identity.
C13_Witness ==
    \E r \in Slots :
        /\ req[r].kind = "createTodo" /\ req[r].status = 201
        /\ TokenOf(req[r]) \in tokens /\ req[r].at > TokenOf(req[r]).iat + 1
        /\ \E u \in users :
              /\ u.email = "a@example.com"
              /\ req[r].user = [userUuid |-> u.uuid, email |-> u.email]
              /\ req[r].todos[1].user_uuid = u.uuid

\* C14: every row that enters todos is added by a createTodo request, with
\* completed FALSE and user_uuid the userUuid of the request's valid token,
\* and is the item of its 201 response; a create request whose body carries
\* user_uuid or completed is answered 400 and adds nothing.
C14_CreatedIncompleteAndOwned ==
    [][/\ \A t \in todos' :
            (\A u \in todos : u.id # t.id) =>
                /\ t.completed = FALSE
                /\ \E r \in Slots :
                      /\ Answers(r) /\ req'[r].kind = "createTodo"
                      /\ req'[r].status = 201 /\ req'[r].todos = <<t>>
                      /\ ValidToken(req'[r])
                      /\ t.user_uuid = TokenOf(req'[r]).userUuid
       /\ \A r \in Slots :
            (/\ Answers(r) /\ req'[r].kind = "createTodo" /\ ValidToken(req'[r])
             /\ \/ req'[r].body.user_uuid # Undefined
                \/ req'[r].body.completed # Undefined)
            => req'[r].status = 400 /\ todos' = todos]_vars

\* C14 witness: the second account's item, created with a description.
C14_Witness ==
    \E r \in Slots :
        /\ req[r].kind = "createTodo" /\ req[r].status = 201
        /\ req[r].body.description # Undefined
        /\ req[r].todos[1] \in todos /\ ~req[r].todos[1].completed
        /\ req[r].todos[1].user_uuid = TokenOf(req[r]).userUuid
        /\ \E u \in users : u.uuid # TokenOf(req[r]).userUuid /\ u.email = "a@example.com"

\* C15: a create request with a token signed with JWT_SECRET and unexpired,
\* and a body that passes createTodoSchema, is answered 201 with an item that
\* has the token's userUuid and the title and description sent.
C15_ValidCreateAnswered201 ==
    \A r \in Slots :
        (/\ req[r].kind = "createTodo" /\ req[r].pc = "done"
         /\ ValidToken(req[r]) /\ createTodoSchema(req[r].body))
        => /\ req[r].status = 201
           /\ Len(req[r].todos) = 1
           /\ req[r].todos[1].user_uuid = TokenOf(req[r]).userUuid
           /\ req[r].todos[1].title = req[r].body.title
           /\ req[r].body.description # Undefined =>
                 req[r].todos[1].description = req[r].body.description

\* C16: an update answered 200 replaces the row of its id by one that has
\* the supplied value in each of title, description, completed that the body
\* carries and the previous value in each that it does not; id, owner and
\* creation time stay, and the response carries the new row.
C16_UpdateTouchesSuppliedFields ==
    [][\A r \in Slots :
          (Answers(r) /\ req'[r].kind = "updateTodo" /\ req'[r].status = 200) =>
              \E old \in todos :
                  LET new == req'[r].todos[1]
                      body == req'[r].body IN
                  /\ old.id = TodoIdOf(req'[r])
                  /\ todos' = (todos \ {old}) \cup {new}
                  /\ new.id = old.id /\ new.user_uuid = old.user_uuid
                  /\ new.created_at = old.created_at
                  /\ new.title = IF body.title # Undefined THEN body.title ELSE old.title
                  /\ new.description =
                        IF body.description # Undefined THEN body.description
                        ELSE old.description
                  /\ new.completed =
                        IF body.completed # Undefined THEN body.completed.v = "true"
                        ELSE old.completed]_vars

\* C16 witness: {completed: true} alone on an item with a description; the
\* flag is set, title and description are as created.
C16_Witness ==
    \E r \in Slots :
        /\ req[r].kind = "updateTodo" /\ req[r].status = 200
        /\ req[r].body = Body([completed |-> Bool(TRUE)])
        /\ req[r].todos[1] \in todos
        /\ req[r].todos[1].completed
        /\ req[r].todos[1].title = Str("Buy milk", 8)
        /\ req[r].todos[1].description = Str("2%", 2)

\* C17: an update by the owner of an existing item with a body that carries
\* none of title, description, completed is answered 404, and todos, the
\* item's updated_at included, is as before.
C17_EmptyUpdateNotFound ==
    [][\A r \in Slots :
          (/\ Answers(r) /\ req'[r].kind = "updateTodo" /\ ValidToken(req'[r])
           /\ req'[r].body = EmptyBody
           /\ \E t \in todos : /\ t.id = TodoIdOf(req'[r])
                               /\ t.user_uuid = TokenOf(req'[r]).userUuid)
          => req'[r].status = 404 /\ todos' = todos]_vars

\* C17 witness: such an update, hours after the item was last written,
\* answered 404 after the lookup alone.
C17_Witness ==
    \E r \in Slots :
        /\ req[r].kind = "updateTodo" /\ req[r].body = EmptyBody
        /\ req[r].status = 404 /\ req[r].queries = 1
        /\ \E t \in todos : /\ t.id = TodoIdOf(req[r])
                            /\ t.user_uuid = req[r].user.userUuid
                            /\ t.updated_at < req[r].at

\* C18: when the write of an update request, whose lookup found the item,
\* runs after the item has been deleted, the update is answered 404 and
\* todos is as before: the row is not written and not re-created.
C18_UpdateAfterDeleteNotFound ==
    [][\A r \in Slots :
          (/\ req[r].kind = "updateTodo" /\ req[r].pc = "update"
           /\ Answers(r) /\ NamesNoRow(req[r]))
          => /\ req'[r].status = 404 /\ req'[r].todos = <<>>
             /\ todos' = todos]_vars

\* C18 witness: the owner's delete answered 204 and the update of the same
\* id, past its lookup, answered 404; the item is absent.
C18_Witness ==
    \E r, o \in Slots :
        /\ req[r].kind = "updateTodo" /\ req[r].status = 404 /\ req[r].queries = 2
        /\ req[o].kind = "deleteTodo" /\ req[o].status = 204
        /\ req[o].idParam = req[r].idParam
        /\ req[o].user = req[r].user
        /\ NamesNoRow(req[r])

\* The sequence has handed the id out and no row has it.
Gone(id) == id < todos_id_seq /\ \A t \in todos : t.id # id

\* The same, of the state a step leads to.
StaysGone(id) == id < todos_id_seq' /\ \A t \in todos' : t.id # id

\* C19 as stated: a delete answered 204 leaves its id without a row; an id
\* without a row stays so, is in no list result, and every update or delete
\* of it is answered 404.
C19_AsStated ==
    [][/\ \A r \in Slots :
            (Answers(r) /\ req'[r].kind = "deleteTodo" /\ req'[r].status = 204)
            => StaysGone(TodoIdOf(req'[r]))
       /\ \A id \in 1..MaxItems :
            Gone(id) =>
                /\ StaysGone(id)
                /\ \A r \in Slots :
                      Answers(r) =>
                          /\ \A i \in DOMAIN req'[r].todos : req'[r].todos[i].id # id
                          /\ (/\ req'[r].kind \in {"updateTodo", "deleteTodo"}
                              /\ TodoIdOf(req'[r]) = id)
                             => req'[r].status = 404]_vars

\* C19: a delete answered 204 leaves its id without a row; an id without a
\* row stays so, is in no list result, and every delete of it, and every
\* update of it with a body that passes updateTodoSchema, sent with a valid
\* token is answered 404.
C19_DeletedStaysAbsent ==
    [][/\ \A r \in Slots :
            (Answers(r) /\ req'[r].kind = "deleteTodo" /\ req'[r].status = 204)
            => StaysGone(TodoIdOf(req'[r]))
       /\ \A id \in 1..MaxItems :
            Gone(id) =>
                /\ StaysGone(id)
                /\ \A r \in Slots :
                      Answers(r) =>
                          /\ \A i \in DOMAIN req'[r].todos : req'[r].todos[i].id # id
                          /\ (/\ req'[r].kind \in {"updateTodo", "deleteTodo"}
                              /\ ValidToken(req'[r]) /\ TodoIdOf(req'[r]) = id
                              /\ req'[r].kind = "deleteTodo" \/ updateTodoSchema(req'[r].body))
                             => req'[r].status = 404]_vars

\* C19 witness: the first id is gone, an item with a later id is active, and
\* a second delete of the first id has been answered 404.
C19_Witness ==
    \E r \in Slots :
        /\ req[r].kind = "deleteTodo" /\ req[r].status = 404
        /\ Gone(TodoIdOf(req[r]))
        /\ \E t \in todos : t.id > TodoIdOf(req[r]) /\ t.user_uuid = req[r].user.userUuid

\* C20: a create answered 201 adds one row whose id no earlier row has and
\* keeps every earlier row, so the owner's rows then hold the new item next
\* to every item an earlier create gave them, identical body or not.
C20_CreateNotIdempotent ==
    [][\A r \in Slots :
          (Answers(r) /\ req'[r].kind = "createTodo" /\ req'[r].status = 201)
          => LET t == req'[r].todos[1] IN
                 /\ \A u \in todos : u.id # t.id
                 /\ todos' = todos \cup {t}
                 /\ {u \in todos : u.user_uuid = t.user_uuid} \cup {t}
                        = {u \in todos' : u.user_uuid = t.user_uuid}
                 /\ \A u, v \in todos' : u.id = v.id => u = v]_vars

\* C20 witness: a create has just been answered 201 and its owner has two
\* items of the same title and description under distinct ids.
C20_Witness ==
    \E r \in Slots :
        /\ req[r].kind = "createTodo" /\ req[r].status = 201
        /\ \E u, v \in todos :
              /\ v = req[r].todos[1] /\ u.id # v.id
              /\ u.user_uuid = v.user_uuid /\ u.user_uuid = req[r].user.userUuid
              /\ u.title = v.title /\ u.description = v.description

\* The row t already carries every value the body supplies.
Carries(t, body) ==
    /\ body.title # Undefined => t.title = body.title
    /\ body.description # Undefined => t.description = body.description
    /\ body.completed # Undefined => t.completed = SqlBoolean(body.completed)

\* C21: an owner's update answered 200 on a row that already carries the
\* values of its body (the row as the same request left it) keeps the row's
\* title, description and completed flag; a delete of an id that has no row
\* (the table as the same delete left it) leaves the todos table as it is.
C21_RetryIdempotent ==
    [][\A r \in Slots :
          /\ (/\ req[r].kind = "updateTodo" /\ req[r].pc = "update"
              /\ Answers(r) /\ req'[r].status = 200)
             => \A t \in todos :
                   (t.id = TodoIdOf(req[r]) /\ Carries(t, req[r].body)) => Kept(t)
          /\ (/\ req'[r].kind = "deleteTodo" /\ Answers(r) /\ NamesNoRow(req'[r]))
             => todos' = todos]_vars

\* C21 witness: the same update request has been answered 200 on both
\* connections and the second answer returns the item with the title,
\* description and completed flag of the first.
C21_Witness ==
    \E r, o \in Slots :
        /\ r # o
        /\ req[r].kind = "updateTodo" /\ req[r].status = 200
        /\ req[o].kind = "updateTodo" /\ req[o].status = 200
        /\ req[r].header = req[o].header /\ req[r].idParam = req[o].idParam
        /\ req[r].body = req[o].body
        /\ req[r].todos[1].title = req[o].todos[1].title
        /\ req[r].todos[1].description = req[o].todos[1].description
        /\ req[r].todos[1].completed = req[o].todos[1].completed
        /\ req[r].todos[1] \in todos

\* C22: a GET /api/todos answered 200 returns each row of the todos table
\* whose owner is the caller once and no other row, and a row is never
\* followed by one created later.
C22_ListCompleteNewestFirst ==
    [][\A r \in Slots :
          (Answers(r) /\ req'[r].kind = "getTodos" /\ req'[r].status = 200)
          => LET rows == req'[r].todos IN
                 /\ {rows[i] : i \in DOMAIN rows}
                        = {t \in todos : t.user_uuid = TokenOf(req'[r]).userUuid}
                 /\ \A i, j \in DOMAIN rows : i # j => rows[i] # rows[j]
                 /\ \A i, j \in DOMAIN rows :
                        i < j => rows[i].created_at >= rows[j].created_at]_vars

\* C22 witness: a list has returned two items of the caller, the later one
\* first.
C22_Witness ==
    \E r \in Slots :
        /\ req[r].kind = "getTodos" /\ req[r].status = 200
        /\ Len(req[r].todos) = 2
        /\ req[r].todos[1].created_at > req[r].todos[2].created_at
        /\ req[r].todos[1].id > req[r].todos[2].id

\* C23: every answered DELETE /api/todos/:id whose path segment is a decimal
\* number has one of the statuses 204, 401, 403, 404.
C23_DeleteStatuses ==
    \A r \in Slots :
        (/\ req[r].kind = "deleteTodo" /\ req[r].pc = "done"
         /\ req[r].idParam # <<>>
         /\ \A i \in 1..Len(req[r].idParam) : req[r].idParam[i] \in Digits)
        => req[r].status \in {204, 401, 403, 404}

\* The body toggleComplete sends for the row t.
ToggleBody(t) ==
    Body([title |-> t.title, description |-> t.description,
          completed |-> Bool(~t.completed)])

\* C24: an update that carries toggleComplete's body for a row of the caller
\* is answered 200, and the row then has the other completed flag and the
\* title and description it had.
C24_ToggleAccepted ==
    [][\A r \in Slots : \A t \in todos :
          (/\ Answers(r) /\ req'[r].kind = "updateTodo"
           /\ TodoIdOf(req'[r]) = t.id /\ req'[r].body = ToggleBody(t)
           /\ ValidToken(req'[r]) /\ TokenOf(req'[r]).userUuid = t.user_uuid)
          => /\ req'[r].status = 200
             /\ \E n \in todos' :
                   /\ n.id = t.id /\ n.completed = ~t.completed
                   /\ n.title = t.title /\ n.description = t.description]_vars

\* C25: the row an update answered 200 has written carries the hour of the
\* write as its update timestamp, whatever values it carried before; no
\* row's update timestamp goes back in any step, and none is earlier than
\* the row's creation timestamp.
C25_UpdateTimestampRefreshed ==
    [][/\ \A r \in Slots :
            (/\ req[r].kind = "updateTodo" /\ req[r].pc = "update"
             /\ Answers(r) /\ req'[r].status = 200)
            => \E n \in todos' :
                  /\ n.id = TodoIdOf(req[r]) /\ n.updated_at = now
                  /\ req'[r].todos = <<n>>
       /\ \A t \in todos : \A n \in todos' :
            n.id = t.id => n.updated_at >= t.updated_at
       /\ \A n \in todos' : n.updated_at >= n.created_at]_vars

\* C25 witness: an update has been answered 200 hours after the item was
\* created, and the stored item carries the hour of that request as its
\* update timestamp.
C25_Witness ==
    \E r \in Slots : \E t \in todos :
        /\ req[r].kind = "updateTodo" /\ req[r].status = 200
        /\ req[r].todos = <<t>>
        /\ Carries(t, req[r].body)
        /\ t.updated_at = req[r].at /\ t.updated_at > t.created_at + 1

\* C26: in every step, a row that is still in the todos table has the id,
\* the owner and the creation timestamp it had, and the row an update
\* returns has the id its path segment names.
C26_IdOwnerCreatedFixed ==
    [][/\ \A t \in todos : \A n \in todos' :
            n.id = t.id => n.user_uuid = t.user_uuid /\ n.created_at = t.created_at
       /\ \A r \in Slots :
            (Answers(r) /\ req'[r].kind = "updateTodo")
            => /\ {t.id : t \in todos'} = {t.id : t \in todos}
               /\ req'[r].status = 200
                  => /\ req'[r].todos[1].id = TodoIdOf(req'[r])
                     /\ req'[r].todos[1].user_uuid = TokenOf(req'[r]).userUuid]_vars

\* C26 witness: an update has been answered 200 an hour or more after the
\* item was created, and the stored item has the id, the owner and the
\* creation hour it had before.
C26_Witness ==
    \E r \in Slots : \E t \in todos :
        /\ req[r].kind = "updateTodo" /\ req[r].status = 200
        /\ req[r].todos = <<t>>
        /\ t.id = TodoIdOf(req[r]) /\ t.user_uuid = TokenOf(req[r]).userUuid
        /\ t.created_at < t.updated_at

\* C27: a delete that has found its caller's row answers 204 and removes
\* that one row when the row is still there at its DELETE, and answers 404
\* and removes nothing when a concurrent delete took the row first; two
\* answered deletes of the same id by the same caller are never both 204
\* while their connections hold the answers.
C27_OneDeleteSucceeds ==
    [][/\ \A r \in Slots :
            (req[r].kind = "deleteTodo" /\ req[r].pc = "delete" /\ Answers(r))
            => IF \E t \in todos : t.id = TodoIdOf(req[r])
               THEN /\ req'[r].status = 204
                    /\ todos' = {t \in todos : t.id # TodoIdOf(req[r])}
                    /\ Cardinality(todos') = Cardinality(todos) - 1
               ELSE /\ req'[r].status = 404
                    /\ todos' = todos
       /\ \A r, o \in Slots :
            (/\ r # o
             /\ req'[r].kind = "deleteTodo" /\ req'[o].kind = "deleteTodo"
             /\ req'[r].idParam = req'[o].idParam /\ req'[r].queries = 2
             /\ req'[o].queries = 2
             /\ req'[r].status = 204)
            => req'[o].status # 204]_vars

\* C27 witness: two deletes of the same id with the same token both found
\* the row and both ran their DELETE; one is answered 204, the other 404.
C27_Witness ==
    \E r, o \in Slots :
        /\ req[r].kind = "deleteTodo" /\ req[r].status = 204 /\ req[r].queries = 2
        /\ req[o].kind = "deleteTodo" /\ req[o].status = 404 /\ req[o].queries = 2
        /\ req[o].idParam = req[r].idParam /\ req[o].header = req[r].header
        /\ NamesNoRow(req[r])

\* The fields two update bodies both supply.
SharedFields(a, b) == UpdateFields(a) \cap UpdateFields(b)

\* C28: an update whose UPDATE runs while the caller's row is there is
\* answered 200, whatever the other connection is doing; the row then
\* carries the values of its body, and when the row carried the values that
\* an update on the other connection wrote, it still carries those in every
\* field the two bodies do not share.
C28_NoLostUpdate ==
    [][\A r \in Slots : \A t \in todos :
          (/\ req[r].kind = "updateTodo" /\ req[r].pc = "update" /\ Answers(r)
           /\ t.id = TodoIdOf(req[r]))
          => /\ req'[r].status = 200
             /\ \E n \in todos' :
                   /\ n.id = t.id /\ req'[r].todos = <<n>>
                   /\ Carries(n, req[r].body)
                   /\ \A o \in Slots \ {r} :
                         (/\ req[o].kind = "updateTodo" /\ req[o].status = 200
                          /\ TodoIdOf(req[o]) = t.id /\ Carries(t, req[o].body))
                         => \A k \in UpdateFields(req[o].body) \ UpdateFields(req[r].body) :
                               n[k] = t[k]]_vars

\* C28 witness: both connections hold a 200 for an update of the same item,
\* one of the title and one of the completed flag; the first answer shows
\* the item before the second write, and the stored item has both values.
C28_Witness ==
    \E r, o \in Slots : \E t \in todos :
        /\ req[r].kind = "updateTodo" /\ req[r].status = 200
        /\ req[o].kind = "updateTodo" /\ req[o].status = 200
        /\ req[r].idParam = req[o].idParam /\ t.id = TodoIdOf(req[r])
        /\ SharedFields(req[r].body, req[o].body) = {}
        /\ req[r].todos # req[o].todos /\ req[o].todos = <<t>>
        /\ Carries(t, req[r].body) /\ Carries(t, req[o].body)

\* The statuses with which a service refuses a request.
Refusals(kind) ==
    IF kind \in TodoKinds THEN {400, 401, 403, 404}
    ELSE IF kind \in {"register", "login"} THEN {400, 401, 409}
    ELSE {}

\* C29: the step in which a request is answered with a refusal of its
\* service leaves the users and todos tables as they are, and so does every
\* step of a request that does not answer it.
C29_RefusalWritesNothing ==
    [][\A r \in Slots :
          /\ (Answers(r) /\ req'[r].status \in Refusals(req'[r].kind))
             => todos' = todos /\ users' = users
          /\ (req'[r] # req[r] /\ req'[r].pc \notin {"done", "idle"})
             => todos' = todos /\ users' = users]_vars

\* C29 witness: an update with a schema-valid body and a valid token has
\* been answered 403 and the item it named is as it was created.
C29_Witness ==
    \E r \in Slots : \E t \in todos :
        /\ req[r].kind = "updateTodo" /\ req[r].status = 403
        /\ UpdateFields(req[r].body) # {} /\ ~Carries(t, req[r].body)
        /\ t.id = TodoIdOf(req[r]) /\ t.user_uuid # TokenOf(req[r]).userUuid
        /\ t.updated_at = t.created_at /\ ~t.completed

====
